---- MODULE Spec2Model ----
(***************************************************************************)
(* State-machine model of src/server.js (who.cares / iffy.app):            *)
(*   - the POST /calculate-weight handler, with its outbound calls (one    *)
(*     structured-generation call, one search lookup per fact) as          *)
(*     suspension points that the environment settles in any order (Spec,  *)
(*     and SpecLive with every outbound call settling in the end);         *)
(*   - the pure function calculateWeightsAndHours, exercised on its own    *)
(*     over bounded inputs (SpecCalc);                                     *)
(*   - the POST /chat handler (SpecChat);                                  *)
(*   - two invocations of the POST /calculate-weight handler with their    *)
(*     suspension points interleaved (SpecPair);                           *)
(*   - the earlier POST /calculate-weight handler of src/unnamed/part_001, *)
(*     which looks its sources up at ground.news (SpecLegacy).             *)
(* JavaScript values: undefined is the marker Undefined; a string whose    *)
(* characters matter (topic) is a sequence of one-character strings; a     *)
(* number that may be NaN is a record [nan, val].                          *)
(***************************************************************************)
EXTENDS Integers, Sequences, FiniteSets, TLC

VARIABLES
  pc,               \* position of the handler: idle, awaitGen, awaitLookups, done
  req,              \* req.body of the request being handled
  genCalls,         \* structured-generation calls issued so far (their prompts)
  generation,       \* what the generation provider did with the call
  searchCalls,      \* search lookups issued so far (their queries), in dispatch order
  data,             \* response.data after the in-place sort
  answered,         \* answered[c][f]: what the search provider did with that lookup
  enhancedFacts,    \* enhancedFacts[c]: result array of enhanceFacts' Promise.all
  citationMap,      \* the handler's citationMap: id -> source object
  citationCounter,  \* the handler's citationCounter
  enhancedData,     \* enhancedData once the outer Promise.all has resolved
  combinedSources,  \* the local combinedSources
  res,              \* responses sent on res, in order
  calcCategories,   \* SpecCalc: argument categories of calculateWeightsAndHours
  calcDays,         \* SpecCalc: argument daysPerYear of the latest call
  calcHours,        \* SpecCalc: totalHours of the latest call
  calcPrevHours,    \* SpecCalc: totalHours of the call before, same categories
  chatPc,           \* POST /chat: position of the handler: idle, awaitChat, done
  chatReq,          \* POST /chat: req.body
  chatCalls,        \* POST /chat: chat-completion calls issued so far (their messages)
  chatOutcome,      \* POST /chat: what the chat-completion provider did with the call
  chatRes,          \* POST /chat: responses sent on res, in order
  legacyPc,         \* part_001: position of the handler: idle, awaitGen, awaitLookups, done
  legacyData,       \* part_001: response.data
  legacyAnswered,   \* part_001: legacyAnswered[c][s]: what ground.news did with that lookup
  legacySources,    \* part_001: legacySources[c]: result array of enhanceSources' Promise.all
  legacyCitationMap,     \* part_001: the handler's citationMap
  legacyCitationCounter, \* part_001: the handler's citationCounter
  legacyRes,        \* part_001: responses sent on res, in order
  calls,            \* two requests: calls[r] is the invocation of the handler for request r
  bindings          \* two requests: the citationMap / citationCounter bindings created so far

vars == <<pc, req, genCalls, generation, searchCalls, data, answered, enhancedFacts,
          citationMap, citationCounter, enhancedData, combinedSources, res,
          calcCategories, calcDays, calcHours, calcPrevHours,
          chatPc, chatReq, chatCalls, chatOutcome, chatRes,
          legacyPc, legacyData, legacyAnswered, legacySources,
          legacyCitationMap, legacyCitationCounter, legacyRes,
          calls, bindings>>

handlerVars == <<pc, req, genCalls, generation, searchCalls, data, answered, enhancedFacts,
                 citationMap, citationCounter, enhancedData, combinedSources, res>>

calcVars == <<calcCategories, calcDays, calcHours, calcPrevHours>>

chatVars == <<chatPc, chatReq, chatCalls, chatOutcome, chatRes>>

legacyVars == <<legacyPc, legacyData, legacyAnswered, legacySources,
                legacyCitationMap, legacyCitationCounter, legacyRes>>

pairVars == <<calls, bindings>>

----------------------------------------------------------------------------
(* Bounds and sample inputs *)

\* most categories in one answer of the generation provider
MaxCats == 2

\* most facts (part_001: most sources), over all categories, in one answer of
\* the generation provider
MaxLookups == 2

\* most categories in an argument of calculateWeightsAndHours under SpecCalc
MaxCalcCats == 2

\* largest daysPerYear under SpecCalc
MaxDays == 10

\* the num parameter of the search call: most items in one answer
num == 3

Undefined == "<undefined>"

Whitespace == {" ", "\t"}

\* a string whose characters matter, or undefined in its place
Str(chars) == [defined |-> TRUE, chars |-> chars]

UndefinedStr == [defined |-> FALSE]

\* request topics: missing, empty, whitespace-only, and one proper topic
SampleTopics ==
  {UndefinedStr, Str(<<>>), Str(<<" ">>), Str(<<"\t", " ">>), Str(<<" ", "a", " ">>)}

\* request bodies: every sample topic with the optional fields left out, and
\* the proper topic with the optional fields given
SampleRequests ==
  { [topic |-> t, personalImpact |-> UndefinedStr, year |-> Undefined,
     daysPerYear |-> 10] : t \in SampleTopics }
    \cup { [topic |-> Str(<<" ", "a", " ">>), personalImpact |-> Str(<<"x">>),
            year |-> "2024", daysPerYear |-> 3] }

\* categories the provider may return, as <<name, weight>>: the schema takes
\* any string and any number
SampleCategories ==
  {<<"Statistical Impact", 8>>, <<"Personal Relevance", 5>>, <<"Other", -3>>}

\* answers of the search provider: items of a response body
Item(t, l) == [title |-> t, link |-> l, snippet |-> "s", displayLink |-> "d"]

SampleItemLists ==
  { <<Item("t2", "u2"), Item("t1", "u1")>>,
    <<Item("t0", Undefined), Item("t3", "u1")>> }

\* outcomes of one search lookup: the call rejects, or resolves with a body
\* that has no items key, or resolves with a list of items
SearchOutcomes ==
  {[kind |-> "rejected"], [kind |-> "resolved", body |-> [kind |-> "search"]]}
    \cup {[kind |-> "resolved", body |-> [kind |-> "search", items |-> l]] :
             l \in SampleItemLists}

Pending == [kind |-> "pending"]

----------------------------------------------------------------------------
(* JavaScript helpers *)

\* String.prototype.trim
RECURSIVE TrimStart(_)
TrimStart(s) ==
  IF s /= <<>> /\ Head(s) \in Whitespace THEN TrimStart(Tail(s)) ELSE s

RECURSIVE TrimEnd(_)
TrimEnd(s) ==
  IF s /= <<>> /\ s[Len(s)] \in Whitespace
    THEN TrimEnd(SubSeq(s, 1, Len(s) - 1))
    ELSE s

Trim(s) == TrimEnd(TrimStart(s))

\* truthiness of a value that is undefined or a string
Truthy(v) == v /= Undefined /\ v /= ""

\* truthiness of a value that is undefined or a string of characters
TruthyStr(v) == v.defined /\ v.chars /= <<>>

\* `${v}` of a value that is undefined or a string
TemplateString(v) == IF v = Undefined THEN "undefined" ELSE v

\* Array.prototype.indexOf
IndexOf(arr, x) ==
  IF \E i \in 1..Len(arr) : arr[i] = x
    THEN (CHOOSE i \in 1..Len(arr) : arr[i] = x /\ \A j \in 1..(i-1) : arr[j] /= x) - 1
    ELSE -1

\* Array.prototype.flat of an array of arrays (flatMap is map, then this)
RECURSIVE Flat(_)
Flat(arrs) == IF arrs = <<>> THEN <<>> ELSE Head(arrs) \o Flat(Tail(arrs))

\* Math.round of the rational n / d, d > 0: the nearest integer, a tie going up
MathRound(n, d) == (2 * n + d) \div (2 * d)

NaN == [nan |-> TRUE, val |-> 0]

Num(n) == [nan |-> FALSE, val |-> n]

----------------------------------------------------------------------------
(* fetchRealSources: what the helper returns once its search call settled *)

RECURSIVE MapItems(_)
MapItems(items) ==
  IF items = <<>> THEN <<>>
  ELSE <<[title |-> Head(items).title,
          link |-> Head(items).link,
          snippet |-> Head(items).snippet]>> \o MapItems(Tail(items))

\* how an async function settles: it returns a value or it throws
Return(value) == [kind |-> "return", value |-> value]

Throw == [kind |-> "throw"]

\* variant of fetchRealSources: no try/catch around the search call
fetchRealSourcesUncaught(outcome) ==
  IF outcome.kind = "rejected"
    THEN Throw
    ELSE IF "items" \in DOMAIN outcome.body
      THEN Return(MapItems(outcome.body.items))
      ELSE Return(<<>>)

fetchRealSources(outcome) ==
  IF outcome.kind = "rejected"
    THEN Return(<<>>)                        \* catch: log, return []
    ELSE IF "items" \in DOMAIN outcome.body
      THEN Return(MapItems(outcome.body.items))
      ELSE Return(<<>>)                      \* items?.map(...) || []

----------------------------------------------------------------------------
(* calculateWeightsAndHours.  Weights and daysPerYear are integers here, and *)
(* the arithmetic is exact; relevanceModifier is kept in tenths.            *)

\* variant of MapCategories: the first Personal Relevance category sets the
\* modifier, later ones only add to the weight sum
RECURSIVE MapCategoriesFirstWins(_, _)
MapCategoriesFirstWins(categories, acc) ==
  IF categories = <<>> THEN acc
  ELSE LET category == Head(categories)
           rest == MapCategoriesFirstWins(Tail(categories), acc)
       IN [relevanceModifier |->
             IF category.category = "Personal Relevance"
               THEN 10 + category.weight
               ELSE rest.relevanceModifier,
           totalWeight |-> rest.totalWeight + category.weight]

\* the categories.map callback, applied left to right to its two accumulators
RECURSIVE MapCategories(_, _)
MapCategories(categories, acc) ==
  IF categories = <<>> THEN acc
  ELSE LET category == Head(categories)
       IN MapCategories(Tail(categories),
            [relevanceModifier |->
               IF category.category = "Personal Relevance"
                 THEN 10 + category.weight
                 ELSE acc.relevanceModifier,
             totalWeight |-> acc.totalWeight + category.weight])

\* variant of calculateWeightsAndHours: the Personal Relevance category feeds
\* the modifier only, and is left out of the average and of its divisor
calculateWeightsAndHoursExcludingPersonal(categories, daysPerYear) ==
  LET totalAvailableHours == daysPerYear * 24
      acc == MapCategories(categories, [relevanceModifier |-> 10, totalWeight |-> 0])
      others == SelectSeq(categories, LAMBDA c : c.category /= "Personal Relevance")
      sum == MapCategories(others, [relevanceModifier |-> 10, totalWeight |-> 0]).totalWeight
      n == Len(others)
      totalHours ==
        IF n = 0
          THEN NaN
          ELSE Num(MathRound(sum * totalAvailableHours * acc.relevanceModifier,
                             n * 10 * 5 * 10))
  IN [enrichedCategories |-> categories,
      totalHours |-> totalHours,
      totalHoursDescription |->
        [totalHours |-> totalHours,
         modifier |-> IF acc.relevanceModifier > 10 THEN acc.relevanceModifier ELSE 0,
         categories |-> n,
         totalAvailableHours |-> totalAvailableHours]]

calculateWeightsAndHours(categories, daysPerYear) ==
  LET totalAvailableHours == daysPerYear * 24
      acc == MapCategories(categories, [relevanceModifier |-> 10, totalWeight |-> 0])
      n == Len(categories)
      \* (totalWeight / n / 10) * (totalAvailableHours / 5) * (relevanceModifier / 10)
      totalHours ==
        IF n = 0
          THEN NaN                           \* 0 / 0
          ELSE Num(MathRound(acc.totalWeight * totalAvailableHours * acc.relevanceModifier,
                             n * 10 * 5 * 10))
  IN [enrichedCategories |-> categories,
      totalHours |-> totalHours,
      totalHoursDescription |->
        [totalHours |-> totalHours,
         modifier |-> IF acc.relevanceModifier > 10 THEN acc.relevanceModifier ELSE 0,
         categories |-> n,
         totalAvailableHours |-> totalAvailableHours]]

----------------------------------------------------------------------------
(* The sort of response.data *)

sortOrder ==
  <<"Statistical Impact", "Social Relevance", "Policy Impact Potential",
    "Personal Relevance">>

\* the comparator handed to response.data.sort
CompareCategories(a, b) == IndexOf(sortOrder, a.category) - IndexOf(sortOrder, b.category)

\* Array.prototype.sort with that comparator: a stable sort
RECURSIVE SortInsert(_, _)
SortInsert(sorted, x) ==
  IF sorted = <<>> THEN <<x>>
  ELSE IF CompareCategories(Head(sorted), x) <= 0
    THEN <<Head(sorted)>> \o SortInsert(Tail(sorted), x)
    ELSE <<x>> \o sorted

RECURSIVE SortData(_)
SortData(arr) ==
  IF arr = <<>> THEN <<>>
  ELSE SortInsert(SortData(SubSeq(arr, 1, Len(arr) - 1)), arr[Len(arr)])

----------------------------------------------------------------------------
(* The citation pass over enhancedData *)

\* enhancedData.flatMap(data => data.facts), as references <<c, f>>
FactRefs(ed) ==
  Flat([c \in 1..Len(ed) |-> [f \in 1..Len(ed[c].facts) |-> <<c, f>>]])

\* ... .flatMap(fact => fact.sources), as references <<c, f, s>>
SourceRefs(ed) ==
  LET facts == FactRefs(ed)
  IN Flat([i \in 1..Len(facts) |->
             [s \in 1..Len(ed[facts[i][1]].facts[facts[i][2]].sources) |->
                <<facts[i][1], facts[i][2], s>>]])

\* `[${n}]`
CitationText(n) == <<"[", n, "]">>

\* sourceObj.citation = citation
WithCitation(sourceObj, citation) ==
  [k \in DOMAIN sourceObj \cup {"citation"} |->
     IF k = "citation" THEN citation ELSE sourceObj[k]]

\* Map.prototype.set on a Map kept as its entries <<key, value>> in insertion order
MapSet(map, key, value) ==
  IF \E i \in 1..Len(map) : map[i][1] = key
    THEN [i \in 1..Len(map) |-> IF map[i][1] = key THEN <<key, value>> ELSE map[i]]
    ELSE Append(map, <<key, value>>)

\* variant of CiteSource: the counter advances for every source entry, also
\* for one without a link, which still gets no citation
CiteSourceCountingAll(st, r) ==
  LET sourceObj == st.enhancedData[r[1]].facts[r[2]].sources[r[3]]
  IN IF Truthy(sourceObj.link)
       THEN LET tagged == WithCitation(sourceObj, CitationText(st.citationCounter))
            IN [enhancedData |->
                  [st.enhancedData EXCEPT ![r[1]].facts[r[2]].sources[r[3]] = tagged],
                citationMap |-> MapSet(st.citationMap, st.citationCounter, tagged),
                citationCounter |-> st.citationCounter + 1]
       ELSE [st EXCEPT !.citationCounter = st.citationCounter + 1]

\* variant of CiteSource: a link that already has an entry in citationMap keeps
\* that entry's citation, and the counter does not advance
CiteSourceOncePerLink(st, r) ==
  LET sourceObj == st.enhancedData[r[1]].facts[r[2]].sources[r[3]]
      known == {i \in 1..Len(st.citationMap) : st.citationMap[i][2].link = sourceObj.link}
  IN IF Truthy(sourceObj.link)
       THEN IF known /= {}
         THEN LET first == CHOOSE i \in known : \A j \in known : i <= j
              IN [st EXCEPT !.enhancedData[r[1]].facts[r[2]].sources[r[3]] =
                    WithCitation(sourceObj, st.citationMap[first][2].citation)]
         ELSE LET tagged == WithCitation(sourceObj, CitationText(st.citationCounter))
              IN [enhancedData |->
                    [st.enhancedData EXCEPT ![r[1]].facts[r[2]].sources[r[3]] = tagged],
                  citationMap |-> MapSet(st.citationMap, st.citationCounter, tagged),
                  citationCounter |-> st.citationCounter + 1]
       ELSE st

\* the body of the forEach callback, for the source object at reference r;
\* st holds enhancedData, citationMap and citationCounter
CiteSource(st, r) ==
  LET sourceObj == st.enhancedData[r[1]].facts[r[2]].sources[r[3]]
  IN IF Truthy(sourceObj.link)
       THEN LET tagged == WithCitation(sourceObj, CitationText(st.citationCounter))
            IN [enhancedData |->
                  [st.enhancedData EXCEPT ![r[1]].facts[r[2]].sources[r[3]] = tagged],
                citationMap |-> MapSet(st.citationMap, st.citationCounter, tagged),
                citationCounter |-> st.citationCounter + 1]
       ELSE st

RECURSIVE CitationPass(_, _)
CitationPass(refs, st) ==
  IF refs = <<>> THEN st ELSE CitationPass(Tail(refs), CiteSource(st, Head(refs)))

\* a property of a JavaScript object, undefined when it has none of that name
Get(obj, key) == IF key \in DOMAIN obj THEN obj[key] ELSE Undefined

\* Array.from(citationMap.entries()).map(...)
CombineSources(map) ==
  [i \in 1..Len(map) |->
     [citation |-> CitationText(map[i][1]),
      source |-> Get(map[i][2], "source"),
      ground_news_link |-> Get(map[i][2], "ground_news_link")]]

----------------------------------------------------------------------------
(* Inputs of the handler: request bodies and answers of the providers *)

\* a category of a parsed answer: name, weight and number of facts given by
\* shape; the fact strings are distinct, as the prompt asks
ParsedCategory(i, shape) ==
  [category |-> shape[1][1],
   weight |-> shape[1][2],
   facts |-> [j \in 1..shape[2] |-> <<"fact", i, j>>],
   reasoning |-> "r"]

RECURSIVE TotalFacts(_)
TotalFacts(shapes) ==
  IF shapes = <<>> THEN 0 ELSE Head(shapes)[2] + TotalFacts(Tail(shapes))

\* the data arrays that satisfy WeightSchema, within the bounds
ParsedData ==
  UNION { { [i \in 1..n |-> ParsedCategory(i, shapes[i])] :
              shapes \in { sh \in [1..n -> SampleCategories \X (0..MaxLookups)] :
                             TotalFacts(sh) <= MaxLookups } } :
          n \in 0..MaxCats }

\* what the structured-generation call may resolve with
Completions ==
  { [id |-> "c"],
    [id |-> "c", choices |-> <<>>],
    [id |-> "c", choices |-> <<[message |-> [refusal |-> "r"]]>>] }
    \cup { [id |-> "c", choices |-> <<[message |-> [parsed |-> [data |-> d]]]>>] :
             d \in ParsedData }

----------------------------------------------------------------------------
(* State of the handlers before their request arrives *)

\* POST /chat has not been called
ChatIdle ==
  /\ chatPc = "idle"
  /\ chatReq = [kind |-> "none"]
  /\ chatCalls = <<>>
  /\ chatOutcome = [kind |-> "none"]
  /\ chatRes = <<>>

\* POST /calculate-weight of part_001 has not been called
LegacyIdle ==
  /\ legacyPc = "idle"
  /\ legacyData = <<>>
  /\ legacyAnswered = <<>>
  /\ legacySources = <<>>
  /\ legacyCitationMap = <<>>
  /\ legacyCitationCounter = 1
  /\ legacyRes = <<>>

\* the two requests of the two-request runs
Requests == {1, 2}

\* neither request has arrived, and no invocation has created its locals
PairIdle ==
  /\ calls = [r \in Requests |->
                [pc |-> "idle", body |-> [topic |-> UndefinedStr], data |-> <<>>,
                 answered |-> <<>>, enhancedFacts |-> <<>>, enhancedData |-> <<>>,
                 env |-> 0, res |-> <<>>]]
  /\ bindings = <<>>

----------------------------------------------------------------------------
(* POST /calculate-weight *)

Init ==
  /\ pc = "idle"
  /\ req = [topic |-> UndefinedStr]
  /\ genCalls = <<>>
  /\ generation = [kind |-> "none"]
  /\ searchCalls = <<>>
  /\ data = <<>>
  /\ answered = <<>>
  /\ enhancedFacts = <<>>
  /\ citationMap = <<>>
  /\ citationCounter = 1
  /\ enhancedData = <<>>
  /\ combinedSources = <<>>
  /\ res = <<>>
  /\ calcCategories = <<>>
  /\ calcDays = 0
  /\ calcHours = NaN
  /\ calcPrevHours = NaN
  /\ ChatIdle
  /\ LegacyIdle
  /\ PairIdle

\* variant of TopicMissing: the topic is tested without being trimmed
TopicMissingUntrimmed(topic) == ~TruthyStr(topic)

\* !topic || topic.trim().length === 0
TopicMissing(topic) == ~TruthyStr(topic) \/ Len(Trim(topic.chars)) = 0

\* personalImpact && personalImpact.trim() ? `...` : null
personalImpactContent(body) ==
  IF TruthyStr(body.personalImpact) /\ Trim(body.personalImpact.chars) /= <<>>
    THEN <<"The user provided personal relevance: ", body.personalImpact.chars>>
    ELSE <<>>

\* the parts of the messages that depend on the request
Prompt(body) ==
  [categories |->
     IF personalImpactContent(body) /= <<>>
       THEN "Statistical Impact, Social Relevance, Policy Impact Potential, and Personal Relevance"
       ELSE "Statistical Impact, Social Relevance, and Policy Impact Potential",
   topic |-> body.topic.chars,
   personalImpactContent |-> personalImpactContent(body),
   year |-> body.year,
   daysPerYear |-> body.daysPerYear]

\* variant of Respond500: the catch block logs the error and sends nothing
Respond500Silent ==
  /\ res' = res
  /\ pc' = "done"

\* variant of Respond500: the catch block passes the error's message on
Respond500WithDetail ==
  /\ res' = Append(res, [status |-> 500,
                         body |-> [error |-> "Failed to calculate topic weight.",
                                   message |-> "error.message"]])
  /\ pc' = "done"

\* the catch block of the handler
Respond500 ==
  /\ res' = Append(res, [status |-> 500,
                         body |-> [error |-> "Failed to calculate topic weight."]])
  /\ pc' = "done"

\* the handler up to its first await
CalculateWeight(body) ==
  /\ pc = "idle"
  /\ req' = body
  /\ IF TopicMissing(body.topic)
       THEN /\ res' = Append(res, [status |-> 400,
                                   body |-> [error |-> "Topic input is required."]])
            /\ pc' = "done"
            /\ UNCHANGED genCalls
       ELSE /\ genCalls' = Append(genCalls, Prompt(body))
            /\ pc' = "awaitGen"
            /\ UNCHANGED res
  /\ UNCHANGED <<generation, searchCalls, data, answered, enhancedFacts, citationMap,
                 citationCounter, enhancedData, combinedSources>>
  /\ UNCHANGED <<calcVars, chatVars, legacyVars, pairVars>>

\* the generation call rejects: the await throws into the catch block
GenerationRejects ==
  /\ pc = "awaitGen"
  /\ generation' = [kind |-> "rejected"]
  /\ Respond500
  /\ UNCHANGED <<req, genCalls, searchCalls, data, answered, enhancedFacts,
                 citationMap, citationCounter, enhancedData, combinedSources>>
  /\ UNCHANGED <<calcVars, chatVars, legacyVars, pairVars>>

\* fact + ` ${year}`
Query(fact, year) == <<fact, " ", TemplateString(year)>>

\* variant of PromiseAllStore: results are kept in the order they arrive
PromiseAllStoreOnArrival(results, i, value) ==
  [results EXCEPT ![CHOOSE j \in 1..Len(results) :
                      results[j] = Pending /\ \A k \in 1..(j - 1) : results[k] /= Pending]
                  = value]

\* Promise.all: the result of the promise at index i goes to index i
PromiseAllStore(results, i, value) == [results EXCEPT ![i] = value]

Settled(results) == \A i \in 1..Len(results) : results[i] /= Pending

AllSettled(ef) == \A c \in 1..Len(ef) : Settled(ef[c])

\* variant of CategoryCallback: the commented-out block is live, and numbers
\* the category's sources as soon as the category's own lookups are done
CategoryCallbackNumbering(st) ==
  LET one == <<[facts |-> st.facts]>>
      out == CitationPass(SourceRefs(one),
                          [enhancedData |-> one,
                           citationMap |-> st.citationMap,
                           citationCounter |-> st.citationCounter])
  IN [facts |-> out.enhancedData[1].facts,
      citationMap |-> out.citationMap,
      citationCounter |-> out.citationCounter]

\* the callback of response.data.map from the resolution of enhanceFacts to
\* its return; st holds the category's enhancedFacts, citationMap and
\* citationCounter.  The block that numbered sources here is commented out
\* in the source, so the callback only returns {...category, facts}.
CategoryCallback(st) == st

\* the handler from the resolution of the outer Promise.all to res.json;
\* d is response.data, ef the facts the category callbacks returned, map and
\* counter the citationMap and citationCounter at that point
Complete(d, ef, map, counter) ==
  LET spread == [c \in 1..Len(d) |->
                   [k \in DOMAIN d[c] |-> IF k = "facts" THEN ef[c] ELSE d[c][k]]]
      st == CitationPass(SourceRefs(spread),
                         [enhancedData |-> spread,
                          citationMap |-> map,
                          citationCounter |-> counter])
      calc == calculateWeightsAndHours(st.enhancedData, req.daysPerYear)
      analysisSummary ==
        [description |-> calc.totalHoursDescription,
         insights |-> [c \in 1..Len(d) |-> <<d[c].category, d[c].weight>>]]
  IN /\ enhancedData' = st.enhancedData
     /\ citationMap' = st.citationMap
     /\ citationCounter' = st.citationCounter
     /\ combinedSources' = CombineSources(st.citationMap)
     /\ res' = Append(res, [status |-> 200,
                            body |-> [weights |-> st.enhancedData,
                                      totalHours |-> calc.totalHours,
                                      totalHoursDescription |-> calc.totalHoursDescription,
                                      analysisContext |-> analysisSummary]])
     /\ pc' = "done"

\* !completion.choices || !completion.choices[0] || !completion.choices[0].message.parsed
InvalidCompletion(completion) ==
  \/ "choices" \notin DOMAIN completion
  \/ completion.choices = <<>>
  \/ "parsed" \notin DOMAIN completion.choices[1].message

\* the generation call resolves: the handler runs to its next await, which
\* dispatches the lookup of every fact of every category; a category without
\* facts has nothing to wait for
GenerationResolves(completion) ==
  /\ pc = "awaitGen"
  /\ generation' = [kind |-> "resolved", completion |-> completion]
  /\ IF InvalidCompletion(completion)
       THEN /\ Respond500
            /\ UNCHANGED <<searchCalls, data, answered, enhancedFacts, citationMap,
                           citationCounter, enhancedData, combinedSources>>
       ELSE LET d == SortData(completion.choices[1].message.parsed.data)
                ef == [c \in 1..Len(d) |-> [f \in 1..Len(d[c].facts) |-> Pending]]
            IN /\ data' = d
               /\ searchCalls' = searchCalls \o
                    Flat([c \in 1..Len(d) |->
                            [f \in 1..Len(d[c].facts) |-> Query(d[c].facts[f], req.year)]])
               /\ answered' = ef
               /\ enhancedFacts' = ef
               /\ IF AllSettled(ef)
                    THEN Complete(d, ef, <<>>, 1)
                    ELSE /\ pc' = "awaitLookups"
                         /\ citationMap' = <<>>
                         /\ citationCounter' = 1
                         /\ UNCHANGED <<enhancedData, combinedSources, res>>
  /\ UNCHANGED <<req, genCalls>>
  /\ UNCHANGED <<calcVars, chatVars, legacyVars, pairVars>>

\* the lookup of fact f of category c settles: fetchRealSources settles, the
\* fact's callback returns {fact, sources}, and whatever waited only for it
\* runs: the category's callback when it was the category's last lookup, and
\* the rest of the handler when it was the request's last.  A throw out of
\* fetchRealSources rejects both Promise.all and lands in the catch block.
SearchSettles(c, f, outcome) ==
  /\ pc = "awaitLookups"
  /\ c \in 1..Len(answered)
  /\ f \in 1..Len(answered[c])
  /\ answered[c][f] = Pending
  /\ answered' = [answered EXCEPT ![c][f] = outcome]
  /\ LET sources == fetchRealSources(outcome)
         facts == PromiseAllStore(enhancedFacts[c], f,
                                  [fact |-> data[c].facts[f], sources |-> sources.value])
         before == [facts |-> facts, citationMap |-> citationMap,
                    citationCounter |-> citationCounter]
         after == IF Settled(facts) THEN CategoryCallback(before) ELSE before
         ef == [enhancedFacts EXCEPT ![c] = after.facts]
     IN IF sources.kind = "throw"
          THEN /\ Respond500
               /\ UNCHANGED <<enhancedFacts, citationMap, citationCounter,
                              enhancedData, combinedSources>>
          ELSE /\ enhancedFacts' = ef
               /\ IF AllSettled(ef)
                    THEN Complete(data, ef, after.citationMap, after.citationCounter)
                    ELSE /\ citationMap' = after.citationMap
                         /\ citationCounter' = after.citationCounter
                         /\ UNCHANGED <<pc, enhancedData, combinedSources, res>>
  /\ UNCHANGED <<req, genCalls, generation, searchCalls, data>>
  /\ UNCHANGED <<calcVars, chatVars, legacyVars, pairVars>>

Next ==
  \/ \E body \in SampleRequests : CalculateWeight(body)
  \/ GenerationRejects
  \/ /\ pc = "awaitGen"
     /\ \E completion \in Completions : GenerationResolves(completion)
  \/ \E c \in 1..MaxCats, f \in 1..MaxLookups, outcome \in SearchOutcomes :
       SearchSettles(c, f, outcome)

Spec == Init /\ [][Next]_vars

\* the generation call settles, one way or the other
GenerationSettles ==
  \/ GenerationRejects
  \/ /\ pc = "awaitGen"
     /\ \E completion \in Completions : GenerationResolves(completion)

\* the search provider's part of SearchSettles: it answers a lookup that is
\* in flight, one way or the other
LookupAnswered ==
  /\ pc = "awaitLookups"
  /\ \E c \in 1..MaxCats, f \in 1..MaxLookups, outcome \in SearchOutcomes :
       /\ c \in 1..Len(answered)
       /\ f \in 1..Len(answered[c])
       /\ answered[c][f] = Pending
       /\ answered' = [answered EXCEPT ![c][f] = outcome]

\* every outbound call eventually resolves or fails: the generation call
\* does not stay pending for ever, and while a lookup is in flight the
\* search provider eventually answers one
SpecLive == Spec /\ WF_vars(GenerationSettles) /\ WF_answered(LookupAnswered)

----------------------------------------------------------------------------
(* calculateWeightsAndHours on its own: one category list, called with      *)
(* daysPerYear = 1, 2, ... in turn                                          *)

CalcNames == {"Statistical Impact", "Social Relevance", "Personal Relevance"}

CalcWeights == {-3, 1, 5, 10}

Category(name, weight) ==
  [category |-> name, weight |-> weight, facts |-> <<>>, reasoning |-> "r"]

\* the two examples worked in the specification
ExampleCategories ==
  <<Category("Statistical Impact", 8), Category("Social Relevance", 6),
    Category("Policy Impact Potential", 4)>>

ExampleWithPersonal == Append(ExampleCategories, Category("Personal Relevance", 5))

CalcCategoryLists ==
  UNION { [1..n -> {Category(name, weight) : name \in CalcNames, weight \in CalcWeights}] :
          n \in 0..MaxCalcCats }
    \cup {ExampleCategories, ExampleWithPersonal}

InitCalc ==
  /\ pc = "idle"
  /\ req = [topic |-> UndefinedStr]
  /\ genCalls = <<>>
  /\ generation = [kind |-> "none"]
  /\ searchCalls = <<>>
  /\ data = <<>>
  /\ answered = <<>>
  /\ enhancedFacts = <<>>
  /\ citationMap = <<>>
  /\ citationCounter = 1
  /\ enhancedData = <<>>
  /\ combinedSources = <<>>
  /\ res = <<>>
  /\ calcCategories \in CalcCategoryLists
  /\ calcDays = 0
  /\ calcHours = NaN
  /\ calcPrevHours = NaN
  /\ ChatIdle
  /\ LegacyIdle
  /\ PairIdle

CalcCall ==
  /\ calcDays < MaxDays
  /\ calcDays' = calcDays + 1
  /\ calcHours' = calculateWeightsAndHours(calcCategories, calcDays + 1).totalHours
  /\ calcPrevHours' = calcHours
  /\ UNCHANGED calcCategories
  /\ UNCHANGED <<handlerVars, chatVars, legacyVars, pairVars>>

NextCalc == CalcCall

SpecCalc == InitCalc /\ [][NextCalc]_vars

----------------------------------------------------------------------------
(* Properties of POST /calculate-weight, checked under Spec *)

\* the request was answered with status 200
Answered200 == Len(res) >= 1 /\ res[1].status = 200

\* the items the search provider returned for fact f of category c
OwnItems(c, f) ==
  IF answered[c][f].kind = "resolved" /\ "items" \in DOMAIN answered[c][f].body
    THEN answered[c][f].body.items
    ELSE <<>>

\* the places <<c, f, s>> of the items returned to the request
ItemPlaces ==
  {p \in (1..Len(answered)) \X (1..MaxLookups) \X (1..num) :
     /\ p[2] <= Len(answered[p[1]])
     /\ p[3] <= Len(OwnItems(p[1], p[2]))}

\* place p comes before place q in the traversal: category, then fact, then source
Before(p, q) ==
  \/ p[1] < q[1]
  \/ p[1] = q[1] /\ p[2] < q[2]
  \/ p[1] = q[1] /\ p[2] = q[2] /\ p[3] < q[3]

ItemAt(p) == OwnItems(p[1], p[2])[p[3]]

HasLink(item) == item.link /= Undefined /\ item.link /= ""

\* the places <<c, f, s>> of the source objects of enhancedData
SourcePlaces ==
  {p \in (1..Len(enhancedData)) \X (1..MaxLookups) \X (1..num) :
     /\ p[2] <= Len(enhancedData[p[1]].facts)
     /\ p[3] <= Len(enhancedData[p[1]].facts[p[2]].sources)}

SourceAt(p) == enhancedData[p[1]].facts[p[2]].sources[p[3]]

Cited(p) == "citation" \in DOMAIN SourceAt(p)

\* C1: a request whose topic is missing, empty or whitespace-only is answered
\* 400 {error: "Topic input is required."}, and no generation call and no
\* search lookup is ever issued for it
C1_BlankTopicRejected ==
  (/\ pc /= "idle"
   /\ \/ ~req.topic.defined
      \/ \A i \in 1..Len(req.topic.chars) : req.topic.chars[i] \in Whitespace)
    => /\ res = <<[status |-> 400, body |-> [error |-> "Topic input is required."]]>>
       /\ genCalls = <<>>
       /\ searchCalls = <<>>

C1_Witness ==
  /\ pc = "done"
  /\ req.topic = Str(<<"\t", " ">>)
  /\ Len(res) = 1
  /\ res[1].status = 400

C3_NumberingByTraversal ==
  Answered200 =>
    /\ \A c \in 1..Len(answered) : \A f \in 1..Len(answered[c]) :
         Len(enhancedData[c].facts[f].sources) = Len(OwnItems(c, f))
    /\ \A p \in ItemPlaces :
         /\ SourceAt(p).link = ItemAt(p).link
         /\ HasLink(ItemAt(p)) =>
              /\ Cited(p)
              /\ SourceAt(p).citation =
                   <<"[", 1 + Cardinality({q \in ItemPlaces : HasLink(ItemAt(q)) /\ Before(q, p)}), "]">>
    /\ \A p \in SourcePlaces, q \in SourcePlaces :
         (Cited(p) /\ Cited(q)) =>
           /\ Before(p, q) => SourceAt(p).citation[2] < SourceAt(q).citation[2]
           /\ SourceAt(p).link /= SourceAt(q).link
                => SourceAt(p).citation /= SourceAt(q).citation

\* two facts of one category whose lookups returned different, non-empty
\* lists, and two cited sources with different links
C3_Witness ==
  /\ Answered200
  /\ \E c \in 1..Len(answered) :
       /\ Len(answered[c]) >= 2
       /\ OwnItems(c, 1) /= OwnItems(c, 2)
       /\ OwnItems(c, 1) /= <<>>
       /\ OwnItems(c, 2) /= <<>>
  /\ \E p \in SourcePlaces, q \in SourcePlaces :
       Cited(p) /\ Cited(q) /\ SourceAt(p).link /= SourceAt(q).link

\* C4: while a lookup of the request is in flight no citation id has been
\* assigned: citationCounter is 1, citationMap is empty and no source object
\* carries a citation
C4_NoCitationWhileInFlight ==
  (\E c \in 1..Len(answered) : \E f \in 1..Len(answered[c]) : answered[c][f] = Pending)
    => /\ citationCounter = 1
       /\ citationMap = <<>>
       /\ \A c \in 1..Len(enhancedFacts) : \A f \in 1..Len(enhancedFacts[c]) :
            enhancedFacts[c][f] /= Pending =>
              \A s \in 1..Len(enhancedFacts[c][f].sources) :
                "citation" \notin DOMAIN enhancedFacts[c][f].sources[s]

\* a category whose lookups are all done, with a linked source, while a
\* lookup of another category is in flight
C4_Witness ==
  /\ pc = "awaitLookups"
  /\ \E c \in 1..Len(answered), d \in 1..Len(answered) :
       /\ c /= d
       /\ answered[c] /= <<>>
       /\ \A f \in 1..Len(answered[c]) : answered[c][f] /= Pending
       /\ \E f \in 1..Len(answered[c]) : \E s \in 1..Len(OwnItems(c, f)) :
            HasLink(OwnItems(c, f)[s])
       /\ \E f \in 1..Len(answered[d]) : answered[d][f] = Pending
  /\ citationCounter = 1

\* C5: a fact whose lookup failed has an empty sources list, every other fact
\* has the sources of its own lookup, and a request with a failed lookup
\* still ends with status 200
C5_FailedLookupIsolated ==
  /\ \A c \in 1..Len(enhancedFacts) : \A f \in 1..Len(enhancedFacts[c]) :
       enhancedFacts[c][f] /= Pending =>
         /\ answered[c][f].kind = "rejected" => enhancedFacts[c][f].sources = <<>>
         /\ Len(enhancedFacts[c][f].sources) = Len(OwnItems(c, f))
         /\ \A s \in 1..Len(OwnItems(c, f)) :
              /\ enhancedFacts[c][f].sources[s].title = OwnItems(c, f)[s].title
              /\ enhancedFacts[c][f].sources[s].link = OwnItems(c, f)[s].link
  /\ (\E c \in 1..Len(answered) : \E f \in 1..Len(answered[c]) :
        answered[c][f].kind = "rejected")
       => /\ \A c \in 1..Len(answered) : \A f \in 1..Len(answered[c]) :
               answered[c][f] /= Pending => enhancedFacts[c][f] /= Pending
          /\ pc = "done" => (Len(res) = 1 /\ res[1].status = 200)
          /\ pc /= "done" => res = <<>>

C5_Witness ==
  /\ pc = "done"
  /\ Answered200
  /\ \E c \in 1..Len(answered), d \in 1..Len(answered) :
       \E f \in 1..Len(answered[c]), g \in 1..Len(answered[d]) :
         /\ answered[c][f].kind = "rejected"
         /\ enhancedData[c].facts[f].sources = <<>>
         /\ enhancedData[d].facts[g].sources /= <<>>

\* C6 as stated: with daysPerYear > 0, the totalHours of a 200 response is a
\* non-negative integer, whatever schema-valid data the provider returned
C6_TotalHoursNonNegativeInteger ==
  (Answered200 /\ req.daysPerYear > 0)
    => /\ ~res[1].body.totalHours.nan
       /\ res[1].body.totalHours.val \in Nat

\* C9 as stated: the categories of a 200 response are in the fixed display
\* order: each name is one of the four, and they follow one another as in
\* sortOrder
C9_FixedDisplayOrder ==
  Answered200 =>
    LET weights == res[1].body.weights
    IN /\ \A i \in 1..Len(weights) :
            \E k \in 1..Len(sortOrder) : sortOrder[k] = weights[i].category
       /\ \A i \in 1..Len(weights), j \in 1..Len(weights) :
            i < j =>
              \E k \in 1..Len(sortOrder), l \in 1..Len(sortOrder) :
                /\ k <= l
                /\ sortOrder[k] = weights[i].category
                /\ sortOrder[l] = weights[j].category

\* C10 as stated: a 200 response carries a sources list with one entry per
\* citation id assigned, in ascending id order, each entry pairing the
\* citation with the source it was assigned to
C10_ResponseCarriesSources ==
  Answered200 =>
    /\ "sources" \in DOMAIN res[1].body
    /\ Len(res[1].body.sources) = citationCounter - 1
    /\ \A i \in 1..Len(res[1].body.sources) :
         /\ res[1].body.sources[i].citation = <<"[", i, "]">>
         /\ \E p \in SourcePlaces :
              /\ Cited(p)
              /\ SourceAt(p).citation = <<"[", i, "]">>
              /\ res[1].body.sources[i].source = SourceAt(p).link

----------------------------------------------------------------------------
(* Properties of calculateWeightsAndHours, checked under SpecCalc *)

\* C7 as stated, for a category list that is not empty: with the categories
\* fixed, totalHours does not decrease when daysPerYear grows (here: from one
\* call to the next, daysPerYear one more)
C7_MonotoneInDays ==
  (calcDays >= 2 /\ calcCategories /= <<>>) =>
    /\ ~calcPrevHours.nan
    /\ ~calcHours.nan
    /\ calcPrevHours.val <= calcHours.val

\* C8: totalHours is the integer nearest (a tie going up) to
\* (averageWeight / 10) * (daysPerYear * 24 / 5) * relevanceModifier, where
\* averageWeight is the sum of all weights over the number of categories,
\* Personal Relevance included in both, and relevanceModifier is 1 + w / 10
\* for the weight w of the (last) Personal Relevance category, 1 without one;
\* it is NaN for no categories (0 / 0).  Weights 8, 6, 4 with 10 days give 29,
\* and 41 with Personal Relevance of weight 5 added.
C8_TotalHoursFormula ==
  calcDays >= 1 =>
    LET n == Len(calcCategories)
        sumTo[i \in 0..n] == IF i = 0 THEN 0 ELSE sumTo[i - 1] + calcCategories[i].weight
        personal == {i \in 1..n : calcCategories[i].category = "Personal Relevance"}
        w == IF personal = {}
               THEN 0
               ELSE calcCategories[CHOOSE i \in personal : \A j \in personal : j <= i].weight
        \* the product as the fraction top / bottom
        top == sumTo[n] * (calcDays * 24) * (10 + w)
        bottom == (n * 10) * 5 * 10
        h == calcHours.val
    IN /\ calcHours.nan <=> n = 0
       /\ n > 0 => /\ (2 * h - 1) * bottom <= 2 * top
                   /\ 2 * top < (2 * h + 1) * bottom
       /\ (calcCategories = ExampleCategories /\ calcDays = 10) => calcHours = Num(29)
       /\ (calcCategories = ExampleWithPersonal /\ calcDays = 10) => calcHours = Num(41)

C8_Witness ==
  /\ calcCategories = ExampleWithPersonal
  /\ calcDays = 10
  /\ calcHours = Num(41)

----------------------------------------------------------------------------
(* Further properties of POST /calculate-weight, checked under Spec *)

\* the generation call failed, or resolved without choices, or with a first
\* choice that has no parsed payload
GenerationFailed ==
  \/ generation.kind = "rejected"
  \/ /\ generation.kind = "resolved"
     /\ \/ "choices" \notin DOMAIN generation.completion
        \/ Len(generation.completion.choices) = 0
        \/ "parsed" \notin DOMAIN generation.completion.choices[1].message

\* C11: when the generation call fails, or returns no choices or no parsed
\* payload, the request is aborted: no search lookup is dispatched, no
\* citation is assigned, and the one response is 500 with exactly
\* {error: "Failed to calculate topic weight."}
C11_GenerationFailureAborts ==
  GenerationFailed =>
    /\ pc = "done"
    /\ res = <<[status |-> 500, body |-> [error |-> "Failed to calculate topic weight."]]>>
    /\ searchCalls = <<>>
    /\ answered = <<>>
    /\ citationMap = <<>>
    /\ citationCounter = 1
    /\ enhancedData = <<>>

\* the provider resolved with a refusal in place of a parsed payload
C11_Witness ==
  /\ generation.kind = "resolved"
  /\ "choices" \in DOMAIN generation.completion
  /\ Len(generation.completion.choices) = 1
  /\ "parsed" \notin DOMAIN generation.completion.choices[1].message
  /\ Len(res) = 1
  /\ res[1].status = 500

\* C12 as stated: in a 200 response a category named Personal Relevance is
\* present in weights if and only if the request supplied a personalImpact
\* that is not blank, whatever schema-valid data the provider returned
C12_PersonalRelevanceIffSupplied ==
  Answered200 =>
    ((\E i \in 1..Len(res[1].body.weights) :
        res[1].body.weights[i].category = "Personal Relevance")
     <=> (req.personalImpact.defined /\ Trim(req.personalImpact.chars) /= <<>>))

\* the number of lookups dispatched before that of fact f of category c
DispatchedBefore(c, f) ==
  Cardinality({p \in (1..Len(data)) \X (1..MaxLookups) :
                 /\ p[2] <= Len(data[p[1]].facts)
                 /\ (p[1] < c \/ (p[1] = c /\ p[2] < f))})

\* C14: whatever the order in which the lookups completed, the categories of
\* a 200 response are the provider's categories in sorted order (by position
\* in sortOrder, ties in the provider's order), the facts of each category
\* are the provider's facts for it in the provider's order, and each fact
\* carries the sources of the lookup that was dispatched with its own text
C14_FactsKeepOrderAndSources ==
  Answered200 =>
    LET weights == res[1].body.weights
        given == generation.completion.choices[1].message.parsed.data
    IN /\ Len(weights) = Len(given)
       /\ \A i \in 1..Len(weights), j \in 1..Len(weights) :
            i < j => IndexOf(sortOrder, weights[i].category)
                       <= IndexOf(sortOrder, weights[j].category)
       /\ \E perm \in [1..Len(weights) -> 1..Len(given)] :
            /\ \A i \in 1..Len(weights), j \in 1..Len(weights) :
                 i /= j => perm[i] /= perm[j]
            /\ \A i \in 1..Len(weights), j \in 1..Len(weights) :
                 (i < j /\ IndexOf(sortOrder, weights[i].category)
                             = IndexOf(sortOrder, weights[j].category))
                   => perm[i] < perm[j]
            /\ \A c \in 1..Len(weights) :
                 /\ weights[c].category = given[perm[c]].category
                 /\ weights[c].weight = given[perm[c]].weight
                 /\ Len(weights[c].facts) = Len(given[perm[c]].facts)
                 /\ \A f \in 1..Len(weights[c].facts) :
                      weights[c].facts[f].fact = given[perm[c]].facts[f]
       /\ \A c \in 1..Len(weights) : \A f \in 1..Len(weights[c].facts) :
            /\ searchCalls[DispatchedBefore(c, f) + 1][1] = weights[c].facts[f].fact
            /\ Len(weights[c].facts[f].sources) = Len(OwnItems(c, f))
            /\ \A s \in 1..Len(OwnItems(c, f)) :
                 /\ weights[c].facts[f].sources[s].title = OwnItems(c, f)[s].title
                 /\ weights[c].facts[f].sources[s].link = OwnItems(c, f)[s].link
                 /\ weights[c].facts[f].sources[s].snippet = OwnItems(c, f)[s].snippet

\* a response whose two categories the sort has exchanged, each with one
\* fact, one of them with sources and the other with none
C14_Witness ==
  /\ Answered200
  /\ LET weights == res[1].body.weights
         given == generation.completion.choices[1].message.parsed.data
     IN /\ Len(weights) = 2
        /\ weights[1].category = given[2].category
        /\ weights[1].category /= given[1].category
        /\ \E c \in 1..2 :
             /\ Len(weights[c].facts) = 1
             /\ weights[c].facts[1].sources /= <<>>
             /\ \E d \in 1..2 :
                  /\ d /= c
                  /\ Len(weights[d].facts) = 1
                  /\ Len(weights[d].facts[1].sources) = 0

\* C16: a source entry without a link never carries a citation; once the
\* citation pass is over and the counter stands at k + 1, the ids on the
\* source entries are exactly 1..k, each on one entry only, and citationMap
\* holds the keys 1..k in that order
C16_IdsContiguous ==
  /\ \A p \in SourcePlaces : ~HasLink(SourceAt(p)) => ~Cited(p)
  /\ Answered200 =>
       LET k == citationCounter - 1
           cited == {p \in SourcePlaces : Cited(p)}
       IN /\ k >= 0
          /\ {SourceAt(p).citation[2] : p \in cited} = 1..k
          /\ \A p \in cited : SourceAt(p).citation = <<"[", SourceAt(p).citation[2], "]">>
          /\ Cardinality(cited) = k
          /\ Len(citationMap) = k
          /\ \A i \in 1..k : citationMap[i][1] = i

\* a source entry without a link, skipped between two cited entries
C16_Witness ==
  /\ Answered200
  /\ \E p \in SourcePlaces, q \in SourcePlaces, r \in SourcePlaces :
       /\ Before(p, q)
       /\ Before(q, r)
       /\ Cited(p)
       /\ ~HasLink(SourceAt(q))
       /\ ~Cited(q)
       /\ Cited(r)
       /\ SourceAt(r).citation[2] = SourceAt(p).citation[2] + 1

\* C20 as stated: the query of a lookup is the fact text with the year
\* appended when the request supplied a year, and the fact text alone, with
\* nothing appended, when it did not
C20_YearOnlyWhenSupplied ==
  \A k \in 1..Len(searchCalls) :
    IF req.year /= Undefined
      THEN searchCalls[k] = <<searchCalls[k][1], " ", req.year>>
      ELSE searchCalls[k] = <<searchCalls[k][1]>>

\* C18: for a category list with more than one Personal Relevance category,
\* totalHours is the integer nearest (a tie going up) to
\* (sum / n / 10) * (daysPerYear * 24 / 5) * (1 + w / 10), where w is the
\* weight of the last Personal Relevance category of the list, and sum and n
\* are the sum of the weights and the number of all the categories, every
\* Personal Relevance category among them
C18_LastDuplicateSetsModifier ==
  LET n == Len(calcCategories)
      personal == {i \in 1..n : calcCategories[i].category = "Personal Relevance"}
  IN (calcDays >= 1 /\ Cardinality(personal) >= 2) =>
       LET last == CHOOSE i \in personal : \A j \in personal : j <= i
           others == {i \in 1..n : i \notin personal}
           sumOver[S \in SUBSET (1..n)] ==
             IF S = {} THEN 0
             ELSE LET i == CHOOSE j \in S : TRUE
                  IN calcCategories[i].weight + sumOver[S \ {i}]
           sum == sumOver[personal] + sumOver[others]
           top == sum * (calcDays * 24) * (10 + calcCategories[last].weight)
           bottom == (Cardinality(personal) + Cardinality(others)) * 10 * 5 * 10
       IN /\ ~calcHours.nan
          /\ (2 * calcHours.val - 1) * bottom <= 2 * top
          /\ 2 * top < (2 * calcHours.val + 1) * bottom

\* Personal Relevance twice, weights 1 then 10, 10 days: 0.55 * 48 * 2 = 52.8
\* (the first weight as modifier would give 0.55 * 48 * 1.1 = 29.04)
C18_Witness ==
  /\ calcCategories = <<Category("Personal Relevance", 1), Category("Personal Relevance", 10)>>
  /\ calcDays = 10
  /\ calcHours = Num(53)

----------------------------------------------------------------------------
(* POST /chat.  A JavaScript value of req.body is a record with its type:   *)
(* undefined, null, string, object or array.                                *)

\* most messages in the conversation of a request
MaxTurns == 2

JsUndefined == [type |-> "undefined"]

JsNull == [type |-> "null"]

JsString(s) == [type |-> "string", value |-> s]

JsObject == [type |-> "object"]

JsArray(items) == [type |-> "array", items |-> items]

\* the value in a boolean context (! and ||)
JsTruthy(v) ==
  CASE v.type = "undefined" -> FALSE
    [] v.type = "null" -> FALSE
    [] v.type = "string" -> v.value /= ""
    [] OTHER -> TRUE

\* Array.isArray
IsArray(v) == v.type = "array"

\* the value inside a template string
JsTemplate(v) ==
  CASE v.type = "undefined" -> "undefined"
    [] v.type = "null" -> "null"
    [] v.type = "string" -> v.value
    [] v.type = "array" -> "<items joined>"
    [] OTHER -> "[object Object]"

SampleMessages == {[role |-> "user", content |-> "q"], [role |-> "assistant", content |-> "a"]}

\* conversation as sent by a client: left out, null, a string, an object, and
\* arrays of 0..MaxTurns messages
SampleConversations ==
  {JsUndefined, JsNull, JsString(""), JsString("hi"), JsObject}
    \cup {JsArray(items) : items \in UNION {[1..n -> SampleMessages] : n \in 0..MaxTurns}}

SampleContexts == {JsUndefined, JsString(""), JsString("ctx"), JsObject}

SampleChatRequests ==
  {[conversation |-> c, analysisContext |-> a] :
     c \in SampleConversations, a \in SampleContexts}

\* what the chat-completion call may do: reject, or resolve with a body
ChatOutcomes ==
  {[kind |-> "rejected"],
   [kind |-> "resolved", completion |-> [id |-> "c"]],
   [kind |-> "resolved", completion |-> [id |-> "c", choices |-> <<>>]],
   [kind |-> "resolved", completion |-> [id |-> "c", choices |-> <<[index |-> 0]>>]],
   [kind |-> "resolved",
    completion |-> [id |-> "c", choices |-> <<[message |-> [content |-> ""]]>>]],
   [kind |-> "resolved",
    completion |-> [id |-> "c", choices |-> <<[message |-> [content |-> "hello"]]>>]]}

\* !conversation || !Array.isArray(conversation) || !analysisContext
ChatInvalid(body) ==
  \/ ~JsTruthy(body.conversation)
  \/ ~IsArray(body.conversation)
  \/ ~JsTruthy(body.analysisContext)

\* the handler up to its await
Chat(body) ==
  /\ chatPc = "idle"
  /\ chatReq' = body
  /\ IF ChatInvalid(body)
       THEN /\ chatRes' = Append(chatRes,
                 [status |-> 400,
                  body |-> [error |-> "Invalid conversation history or analysis context."]])
            /\ chatPc' = "done"
            /\ UNCHANGED chatCalls
       ELSE /\ chatCalls' = Append(chatCalls,
                 [model |-> "gpt-4",
                  messages |->
                    <<[role |-> "system",
                       content |-> <<"You are discussing the topic based on the following analysis: ",
                                     JsTemplate(body.analysisContext)>>]>>
                      \o body.conversation.items])
            /\ chatPc' = "awaitChat"
            /\ UNCHANGED chatRes
  /\ UNCHANGED chatOutcome
  /\ UNCHANGED <<handlerVars, calcVars, legacyVars, pairVars>>

\* completion.choices[0]?.message?.content || 'Sorry, ...'; reading [0] of a
\* missing choices throws
Reply(completion) ==
  IF "choices" \notin DOMAIN completion THEN Throw
  ELSE IF /\ completion.choices /= <<>>
          /\ "message" \in DOMAIN completion.choices[1]
          /\ "content" \in DOMAIN completion.choices[1].message
          /\ completion.choices[1].message.content /= ""
         THEN Return(completion.choices[1].message.content)
         ELSE Return("Sorry, I couldn't process your question.")

\* the chat-completion call settles: the handler runs to its end
ChatSettles(outcome) ==
  /\ chatPc = "awaitChat"
  /\ chatOutcome' = outcome
  /\ LET reply == IF outcome.kind = "rejected" THEN Throw ELSE Reply(outcome.completion)
     IN chatRes' = Append(chatRes,
          IF reply.kind = "throw"
            THEN [status |-> 500, body |-> [error |-> "Failed to process the chat."]]
            ELSE [status |-> 200, body |-> [reply |-> reply.value]])
  /\ chatPc' = "done"
  /\ UNCHANGED <<chatReq, chatCalls>>
  /\ UNCHANGED <<handlerVars, calcVars, legacyVars, pairVars>>

NextChat ==
  \/ \E body \in SampleChatRequests : Chat(body)
  \/ \E outcome \in ChatOutcomes : ChatSettles(outcome)

SpecChat == Init /\ [][NextChat]_vars

\* C13 as stated: a /chat request whose conversation is not a non-empty array
\* (left out, not an array, or an empty array) or whose analysisContext is
\* left out is answered 400, and no chat-completion call is made for it
C13_ChatRejectsInvalid ==
  (/\ chatPc /= "idle"
   /\ \/ chatReq.conversation.type /= "array"
      \/ Len(chatReq.conversation.items) = 0
      \/ chatReq.analysisContext.type = "undefined")
    => /\ chatCalls = <<>>
       /\ Len(chatRes) = 1
       /\ chatRes[1].status = 400

----------------------------------------------------------------------------
(* POST /calculate-weight as in src/unnamed/part_001: the provider returns  *)
(* source URLs with each category, every source is looked up at ground.news *)
(* concurrently, and the category callback numbers its sources.  MaxCats    *)
(* bounds the categories and MaxLookups the sources of one answer.          *)

\* source strings the provider may return: the schema takes any string
SampleSources == {"https://a", ""}

\* outcomes of one ground.news lookup: the call rejects, or resolves with a
\* body with or without an interest
LegacyOutcomes ==
  {[kind |-> "rejected"],
   [kind |-> "resolved", body |-> [kind |-> "ground"]],
   [kind |-> "resolved", body |-> [kind |-> "ground", interest |-> [slug |-> "s"]]]}

RECURSIVE TotalSources(_)
TotalSources(lists) ==
  IF lists = <<>> THEN 0 ELSE Len(Head(lists)) + TotalSources(Tail(lists))

\* the data arrays that satisfy the WeightSchema of part_001, within the bounds
LegacyParsedData ==
  UNION { { [i \in 1..n |->
               [category |-> "c", weight |-> 5, facts |-> <<>>,
                sources |-> lists[i], reasoning |-> "r"]] :
              lists \in { l \in [1..n -> UNION {[1..k -> SampleSources] : k \in 0..MaxLookups}] :
                            TotalSources(l) <= MaxLookups } } :
          n \in 0..MaxCats }

LegacyCompletions ==
  { [id |-> "c"],
    [id |-> "c", choices |-> <<>>],
    [id |-> "c", choices |-> <<[message |-> [refusal |-> "r"]]>>] }
    \cup { [id |-> "c",
            choices |-> <<[message |-> [parsed |-> [totalHours |-> 40,
                                                    totalHoursDescription |-> "d",
                                                    data |-> d]]]>>] :
             d \in LegacyParsedData }

\* the callback of sources.map: {source, ground_news_link}, with the link
\* empty when the call failed or the body has no interest
EnhanceSource(source, outcome) ==
  [source |-> source,
   ground_news_link |->
     IF outcome.kind = "resolved" /\ "interest" \in DOMAIN outcome.body
       THEN <<"https://ground.news/interest/", outcome.body.interest.slug>>
       ELSE ""]

\* enhancedSources.forEach of the category callback, from entry i on;
\* st holds the category's sources, citationMap and citationCounter
RECURSIVE LegacyCite(_, _)
LegacyCite(st, i) ==
  IF i > Len(st.sources) THEN st
  ELSE IF Truthy(st.sources[i].source)
    THEN LET tagged == WithCitation(st.sources[i], CitationText(st.citationCounter))
         IN LegacyCite([sources |-> [st.sources EXCEPT ![i] = tagged],
                        citationMap |-> MapSet(st.citationMap, st.citationCounter, tagged),
                        citationCounter |-> st.citationCounter + 1],
                       i + 1)
    ELSE LegacyCite(st, i + 1)

\* the catch block
LegacyRespond500 ==
  /\ legacyRes' = Append(legacyRes, [status |-> 500,
                                     body |-> [error |-> "Failed to calculate topic weight."]])
  /\ legacyPc' = "done"

\* the handler from the resolution of the outer Promise.all to res.json
LegacyComplete(parsed, sources, map) ==
  /\ legacyRes' = Append(legacyRes,
       [status |-> 200,
        body |-> [weights |-> [c \in 1..Len(parsed.data) |->
                                 [k \in DOMAIN parsed.data[c] |->
                                    IF k = "sources" THEN sources[c] ELSE parsed.data[c][k]]],
                  totalHours |-> parsed.totalHours,
                  totalHoursDescription |-> parsed.totalHoursDescription,
                  sources |-> CombineSources(map)]])
  /\ legacyPc' = "done"

\* the handler up to its first await
LegacyCalculateWeight(body) ==
  /\ legacyPc = "idle"
  /\ IF TopicMissing(body.topic)
       THEN /\ legacyRes' = Append(legacyRes, [status |-> 400,
                                               body |-> [error |-> "Topic input is required."]])
            /\ legacyPc' = "done"
       ELSE /\ legacyPc' = "awaitGen"
            /\ UNCHANGED legacyRes
  /\ UNCHANGED <<legacyData, legacyAnswered, legacySources, legacyCitationMap,
                 legacyCitationCounter>>
  /\ UNCHANGED <<handlerVars, calcVars, chatVars, pairVars>>

\* the generation call rejects
LegacyGenerationRejects ==
  /\ legacyPc = "awaitGen"
  /\ LegacyRespond500
  /\ UNCHANGED <<legacyData, legacyAnswered, legacySources, legacyCitationMap,
                 legacyCitationCounter>>
  /\ UNCHANGED <<handlerVars, calcVars, chatVars, pairVars>>

\* the generation call resolves: the handler runs to its next await, which
\* dispatches the lookup of every source of every category; the callback of
\* a category without sources has nothing to wait for and nothing to number
LegacyGenerationResolves(completion) ==
  /\ legacyPc = "awaitGen"
  /\ IF InvalidCompletion(completion)
       THEN /\ LegacyRespond500
            /\ UNCHANGED <<legacyData, legacyAnswered, legacySources>>
       ELSE LET parsed == completion.choices[1].message.parsed
                pending == [c \in 1..Len(parsed.data) |->
                              [s \in 1..Len(parsed.data[c].sources) |-> Pending]]
            IN /\ legacyData' = parsed
               /\ legacyAnswered' = pending
               /\ legacySources' = pending
               /\ IF AllSettled(pending)
                    THEN LegacyComplete(parsed, pending, <<>>)
                    ELSE /\ legacyPc' = "awaitLookups"
                         /\ UNCHANGED legacyRes
  /\ UNCHANGED <<legacyCitationMap, legacyCitationCounter>>
  /\ UNCHANGED <<handlerVars, calcVars, chatVars, pairVars>>

\* the lookup of source s of category c settles: its callback returns
\* {source, ground_news_link}; when it was the category's last lookup the
\* category callback goes on and numbers the category's sources, and when
\* it was the request's last the handler runs to res.json
LegacyLookupSettles(c, s, outcome) ==
  /\ legacyPc = "awaitLookups"
  /\ c \in 1..Len(legacyAnswered)
  /\ s \in 1..Len(legacyAnswered[c])
  /\ legacyAnswered[c][s] = Pending
  /\ legacyAnswered' = [legacyAnswered EXCEPT ![c][s] = outcome]
  /\ LET results == PromiseAllStore(legacySources[c], s,
                                    EnhanceSource(legacyData.data[c].sources[s], outcome))
         before == [sources |-> results, citationMap |-> legacyCitationMap,
                    citationCounter |-> legacyCitationCounter]
         after == IF Settled(results) THEN LegacyCite(before, 1) ELSE before
         all == [legacySources EXCEPT ![c] = after.sources]
     IN /\ legacySources' = all
        /\ legacyCitationMap' = after.citationMap
        /\ legacyCitationCounter' = after.citationCounter
        /\ IF AllSettled(all)
             THEN LegacyComplete(legacyData, all, after.citationMap)
             ELSE UNCHANGED <<legacyPc, legacyRes>>
  /\ UNCHANGED legacyData
  /\ UNCHANGED <<handlerVars, calcVars, chatVars, pairVars>>

NextLegacy ==
  \/ \E body \in SampleRequests : LegacyCalculateWeight(body)
  \/ LegacyGenerationRejects
  \/ /\ legacyPc = "awaitGen"
     /\ \E completion \in LegacyCompletions : LegacyGenerationResolves(completion)
  \/ \E c \in 1..MaxCats, s \in 1..MaxLookups, outcome \in LegacyOutcomes :
       LegacyLookupSettles(c, s, outcome)

SpecLegacy == Init /\ [][NextLegacy]_vars

\* the places <<c, s>> of the sources of the response of part_001
LegacyPlaces ==
  {p \in (1..Len(legacySources)) \X (1..MaxLookups) : p[2] <= Len(legacySources[p[1]])}

\* C17 as stated: in part_001 no citation id is assigned while a lookup of
\* any category is still in flight, and in a 200 response the id of a source
\* is 1 + the number of (non-empty) sources before it by category order and
\* position within the category, whatever the order the lookups completed in
C17_LegacyNumberingByPosition ==
  /\ (\E p \in LegacyPlaces : legacyAnswered[p[1]][p[2]] = Pending)
       => legacyCitationCounter = 1
  /\ (Len(legacyRes) = 1 /\ legacyRes[1].status = 200) =>
       \A p \in LegacyPlaces :
         LET weights == legacyRes[1].body.weights
         IN weights[p[1]].sources[p[2]].source /= "" =>
              weights[p[1]].sources[p[2]].citation =
                <<"[",
                  1 + Cardinality({q \in LegacyPlaces :
                                     /\ weights[q[1]].sources[q[2]].source /= ""
                                     /\ (q[1] < p[1] \/ (q[1] = p[1] /\ q[2] < p[2]))}),
                  "]">>

----------------------------------------------------------------------------
(* Termination of POST /calculate-weight, checked under SpecLive *)

\* C19: when every outbound call eventually resolves or fails, a request
\* that has arrived is eventually answered; the handler ends only with the
\* request answered; at no time are there two responses; the status of the
\* response is 200, 400 or 500; and once sent the response never changes
C19_ExactlyOneResponse ==
  /\ [](Len(res) <= 1)
  /\ [](\A i \in 1..Len(res) : res[i].status \in {200, 400, 500})
  /\ [](pc = "done" <=> Len(res) = 1)
  /\ [][Len(res) = 1 => res' = res]_vars
  /\ (pc /= "idle") ~> (pc = "done" /\ Len(res) = 1)

\* a request answered 200 after every one of its lookups has settled, one
\* of them by failing and another with items
C19_Witness ==
  /\ pc = "done"
  /\ Len(res) = 1
  /\ res[1].status = 200
  /\ Len(searchCalls) = 2
  /\ \A c \in 1..Len(answered) : \A f \in 1..Len(answered[c]) : answered[c][f] /= Pending
  /\ \E c \in 1..Len(answered) : \E f \in 1..Len(answered[c]) :
       answered[c][f].kind = "rejected"
  /\ \E c \in 1..Len(answered) : \E f \in 1..Len(answered[c]) :
       OwnItems(c, f) /= <<>>

----------------------------------------------------------------------------
(* Two POST /calculate-weight requests in one process.  Each invocation of  *)
(* the handler has its own locals; the only thing the invocations could     *)
(* share is what the handler's code reaches, and citationMap and            *)
(* citationCounter are created by the invocation itself.  bindings is the   *)
(* store of those locals, calls[r].env the place of invocation r's in it.   *)

\* most facts in the answer of the generation provider to one of the requests
MaxPairFacts == 2

\* the search provider's answers to the lookups of request r carry r in
\* their titles and links
PairItem(r) == IF r = 1 THEN Item("t-one", "u-one") ELSE Item("t-two", "u-two")

PairOutcomes(r) ==
  {[kind |-> "rejected"],
   [kind |-> "resolved", body |-> [kind |-> "search", items |-> <<PairItem(r)>>]],
   [kind |-> "resolved",
    body |-> [kind |-> "search", items |-> <<Item("t0", Undefined), PairItem(r)>>]]}

\* what the generation call of request r may resolve with: no choices, or
\* one category with 0..MaxPairFacts facts of its own
PairCompletions(r) ==
  {[id |-> "c", choices |-> <<>>]}
    \cup {[id |-> "c",
           choices |-> <<[message |-> [parsed |-> [data |->
             <<[category |-> "Statistical Impact", weight |-> 8,
                facts |-> [j \in 1..n |-> <<"fact", r, j>>],
                reasoning |-> "r"]>>]]]>>] : n \in 0..MaxPairFacts}

\* request bodies of the two-request runs
PairRequests == {b \in SampleRequests : b.year = Undefined}

\* variant of NewBinding: citationMap and citationCounter are created once,
\* outside the handler, and every invocation uses that one pair
NewBindingShared(store) ==
  IF store = <<>>
    THEN [bindings |-> <<[citationMap |-> <<>>, citationCounter |-> 1]>>, env |-> 1]
    ELSE [bindings |-> store, env |-> 1]

\* const citationMap = new Map(); let citationCounter = 1;
\* run by the invocation: a new pair of locals, at a new place of the store
NewBinding(store) ==
  [bindings |-> Append(store, [citationMap |-> <<>>, citationCounter |-> 1]),
   env |-> Len(store) + 1]

PairRespond(call, status, body) ==
  [call EXCEPT !.pc = "done", !.res = Append(call.res, [status |-> status, body |-> body])]

PairRespond500(call) ==
  PairRespond(call, 500, [error |-> "Failed to calculate topic weight."])

\* the handler from the resolution of the outer Promise.all to res.json, for
\* the invocation call whose locals are binding
PairComplete(call, binding) ==
  LET spread == [c \in 1..Len(call.data) |->
                   [k \in DOMAIN call.data[c] |->
                      IF k = "facts" THEN call.enhancedFacts[c] ELSE call.data[c][k]]]
      st == CitationPass(SourceRefs(spread),
                         [enhancedData |-> spread,
                          citationMap |-> binding.citationMap,
                          citationCounter |-> binding.citationCounter])
      calc == calculateWeightsAndHours(st.enhancedData, call.body.daysPerYear)
  IN [call |-> PairRespond([call EXCEPT !.enhancedData = st.enhancedData], 200,
                           [weights |-> st.enhancedData,
                            totalHours |-> calc.totalHours,
                            totalHoursDescription |-> calc.totalHoursDescription]),
      binding |-> [citationMap |-> st.citationMap, citationCounter |-> st.citationCounter]]

\* request r arrives: the handler runs up to its first await
PairCalculateWeight(r, body) ==
  /\ calls[r].pc = "idle"
  /\ calls' = [calls EXCEPT ![r] =
       IF TopicMissing(body.topic)
         THEN PairRespond([@ EXCEPT !.body = body], 400, [error |-> "Topic input is required."])
         ELSE [@ EXCEPT !.body = body, !.pc = "awaitGen"]]
  /\ UNCHANGED bindings
  /\ UNCHANGED <<handlerVars, calcVars, chatVars, legacyVars>>

\* the generation call of request r rejects
PairGenerationRejects(r) ==
  /\ calls[r].pc = "awaitGen"
  /\ calls' = [calls EXCEPT ![r] = PairRespond500(@)]
  /\ UNCHANGED bindings
  /\ UNCHANGED <<handlerVars, calcVars, chatVars, legacyVars>>

\* the generation call of request r resolves: the invocation sorts the data,
\* creates its citationMap and citationCounter and dispatches its lookups
PairGenerationResolves(r, completion) ==
  /\ calls[r].pc = "awaitGen"
  /\ IF InvalidCompletion(completion)
       THEN /\ calls' = [calls EXCEPT ![r] = PairRespond500(@)]
            /\ UNCHANGED bindings
       ELSE LET d == SortData(completion.choices[1].message.parsed.data)
                ef == [c \in 1..Len(d) |-> [f \in 1..Len(d[c].facts) |-> Pending]]
                new == NewBinding(bindings)
                call == [calls[r] EXCEPT !.data = d, !.answered = ef,
                                         !.enhancedFacts = ef, !.env = new.env,
                                         !.pc = "awaitLookups"]
                done == PairComplete(call, new.bindings[new.env])
            IN IF AllSettled(ef)
                 THEN /\ calls' = [calls EXCEPT ![r] = done.call]
                      /\ bindings' = [new.bindings EXCEPT ![new.env] = done.binding]
                 ELSE /\ calls' = [calls EXCEPT ![r] = call]
                      /\ bindings' = new.bindings
  /\ UNCHANGED <<handlerVars, calcVars, chatVars, legacyVars>>

\* the lookup of fact f of category c of request r settles
PairSearchSettles(r, c, f, outcome) ==
  /\ calls[r].pc = "awaitLookups"
  /\ c \in 1..Len(calls[r].answered)
  /\ f \in 1..Len(calls[r].answered[c])
  /\ calls[r].answered[c][f] = Pending
  /\ LET sources == fetchRealSources(outcome)
         facts == PromiseAllStore(calls[r].enhancedFacts[c], f,
                                  [fact |-> calls[r].data[c].facts[f],
                                   sources |-> sources.value])
         call == [calls[r] EXCEPT !.answered[c][f] = outcome, !.enhancedFacts[c] = facts]
         done == PairComplete(call, bindings[call.env])
     IN IF AllSettled(call.enhancedFacts)
          THEN /\ calls' = [calls EXCEPT ![r] = done.call]
               /\ bindings' = [bindings EXCEPT ![call.env] = done.binding]
          ELSE /\ calls' = [calls EXCEPT ![r] = call]
               /\ UNCHANGED bindings
  /\ UNCHANGED <<handlerVars, calcVars, chatVars, legacyVars>>

NextPair ==
  \/ \E r \in Requests, body \in PairRequests : PairCalculateWeight(r, body)
  \/ \E r \in Requests : PairGenerationRejects(r)
  \/ \E r \in Requests : \E completion \in PairCompletions(r) :
       PairGenerationResolves(r, completion)
  \/ \E r \in Requests, c \in 1..MaxCats, f \in 1..MaxPairFacts :
       \E outcome \in PairOutcomes(r) : PairSearchSettles(r, c, f, outcome)

SpecPair == Init /\ [][NextPair]_vars

\* the places <<c, f, s>> of the source objects in the response to request r
PairPlaces(r) ==
  {p \in (1..Len(calls[r].enhancedData)) \X (1..MaxPairFacts) \X (1..num) :
     /\ p[2] <= Len(calls[r].enhancedData[p[1]].facts)
     /\ p[3] <= Len(calls[r].enhancedData[p[1]].facts[p[2]].sources)}

PairSourceAt(r, p) == calls[r].enhancedData[p[1]].facts[p[2]].sources[p[3]]

\* C15: with two requests interleaved in any way, each invocation has a
\* citationMap and citationCounter of its own; while a request waits for its
\* lookups its map is empty and its counter 1, whatever the other request
\* has done; in its 200 response every source comes from its own lookups and
\* the id of a source is 1 + the number of linked sources before it in the
\* same response; and its map holds its own cited sources and nothing else
C15_RequestsIsolated ==
  \A r \in Requests :
    LET call == calls[r]
        linked == {p \in PairPlaces(r) : HasLink(PairSourceAt(r, p))}
    IN /\ \A o \in Requests : (o /= r /\ call.env /= 0) => calls[o].env /= call.env
       /\ call.pc = "awaitLookups" =>
            /\ bindings[call.env].citationCounter = 1
            /\ bindings[call.env].citationMap = <<>>
       /\ (call.pc = "done" /\ call.res[1].status = 200) =>
            /\ call.res[1].body.weights = call.enhancedData
            /\ \A p \in PairPlaces(r) :
                 /\ PairSourceAt(r, p).title \in {PairItem(r).title, "t0"}
                 /\ PairSourceAt(r, p).link \in {PairItem(r).link, Undefined}
                 /\ HasLink(PairSourceAt(r, p)) =>
                      /\ "citation" \in DOMAIN PairSourceAt(r, p)
                      /\ PairSourceAt(r, p).citation =
                           <<"[", 1 + Cardinality({q \in linked : Before(q, p)}), "]">>
            /\ bindings[call.env].citationCounter = 1 + Cardinality(linked)
            /\ Len(bindings[call.env].citationMap) = Cardinality(linked)
            /\ \A i \in 1..Len(bindings[call.env].citationMap) :
                 bindings[call.env].citationMap[i][2].link = PairItem(r).link

\* both requests answered 200, each with a source of its own lookups cited
\* as [1]; the second request was the first to create its locals
C15_Witness ==
  /\ \A r \in Requests :
       /\ calls[r].pc = "done"
       /\ calls[r].res[1].status = 200
       /\ \E p \in PairPlaces(r) :
            /\ "citation" \in DOMAIN PairSourceAt(r, p)
            /\ PairSourceAt(r, p).citation = <<"[", 1, "]">>
            /\ PairSourceAt(r, p).link = PairItem(r).link
  /\ calls[1].env = 2
  /\ calls[2].env = 1

====
